---- MODULE Spec2Model ----
(***************************************************************************)
(* Entity-resolution + quality-check pipeline of src/src/core/er_qc.py.    *)
(*                                                                         *)
(* Representation                                                          *)
(*   text cell        a sequence of one-character strings; <<>> is ""      *)
(*   NaN              the missing cell (pandas NaN / Python None)          *)
(*   timestamp text   <<"T", day, tz>>: an ISO-8601 text for calendar day  *)
(*                    `day` with offset suffix tz ("Z", "+00:00",          *)
(*                    "+02:00") or none ("")                               *)
(*   days cell        NoDays (NaN) or <<d>> for the integer d              *)
(*   reals            fixed point: name_similarity in 1/1000, freshness in *)
(*                    1/10, weights and thresholds in 1/100, match_score   *)
(*                    in 1/100000 (= weight unit * name_similarity unit)   *)
(*   table            [cols |-> set of column names, rows |-> sequence of  *)
(*                    rows], a row being a function on cols and on         *)
(*                    "index", the row's label in the DataFrame's index    *)
(***************************************************************************)
EXTENDS Integers, Sequences, FiniteSets, TLC

VARIABLES pc, csv, df, top, files, weights, thresholds, now, run, prev, err, summary

vars == <<pc, csv, df, top, files, weights, thresholds, now, run, prev, err, summary>>

(***************************************************************************)
(* Cells                                                                   *)
(***************************************************************************)
NaN == <<"NaN">>

NoDays == <<>>

IsNa(x) == x = NaN

\* Series.get / dict.get: the value under key k, or the default d
Get(r, k, d) == IF k \in DOMAIN r THEN r[k] ELSE d

IsSpace(c) == c = " "

Lower(c) == IF c = "A" THEN "a" ELSE IF c = "B" THEN "b" ELSE c

RECURSIVE LStrip(_)
LStrip(s) == IF s # <<>> /\ IsSpace(Head(s)) THEN LStrip(Tail(s)) ELSE s

RECURSIVE RStrip(_)
RStrip(s) ==
    IF s # <<>> /\ IsSpace(s[Len(s)]) THEN RStrip(SubSeq(s, 1, Len(s) - 1)) ELSE s

\* str.strip()
Strip(s) == RStrip(LStrip(s))

\* str(x) of a cell: a missing cell prints as "nan" (never blank)
Str(x) == IF IsNa(x) THEN <<"n", "a", "n">> ELSE x

\* norm(s): NaN -> "", else str(s).strip().lower()
Norm(s) ==
    IF IsNa(s) THEN <<>>
    ELSE LET t == Strip(Str(s)) IN [i \in 1..Len(t) |-> Lower(t[i])]

(***************************************************************************)
(* difflib.SequenceMatcher(None, a, b).ratio(), no junk: the longest       *)
(* matching block (longest, then earliest in a, then earliest in b), then  *)
(* the same to its left and to its right.  Indices are Python's 0-based    *)
(* half-open ranges.                                                       *)
(***************************************************************************)
RECURSIVE MatchCount(_, _, _, _, _, _)
MatchCount(a, alo, ahi, b, blo, bhi) ==
    LET cands == {c \in (alo..(ahi - 1)) \X (blo..(bhi - 1)) \X (1..(ahi - alo)) :
                    /\ c[1] + c[3] <= ahi
                    /\ c[2] + c[3] <= bhi
                    /\ \A t \in 0..(c[3] - 1) : a[c[1] + t + 1] = b[c[2] + t + 1]}
    IN  IF cands = {} THEN 0
        ELSE LET m == CHOOSE c \in cands : \A d \in cands :
                         \/ c[3] > d[3]
                         \/ c[3] = d[3] /\ c[1] < d[1]
                         \/ c[3] = d[3] /\ c[1] = d[1] /\ c[2] <= d[2]
             IN  m[3] + MatchCount(a, alo, m[1], b, blo, m[2])
                      + MatchCount(a, m[1] + m[3], ahi, b, m[2] + m[3], bhi)

\* ratio(): 2.0*M/T, and 1.0 when both sequences are empty (in 1/1000)
Ratio(a, b) ==
    LET T == Len(a) + Len(b)
    IN  IF T = 0 THEN 1000 ELSE (2000 * MatchCount(a, 0, Len(a), b, 0, Len(b))) \div T

\* sim(a, b)
Sim(a, b) == Ratio(Norm(a), Norm(b))

(***************************************************************************)
(* parse_dt                                                                *)
(***************************************************************************)
IsTimestampText(s) == Len(s) = 3 /\ s[1] = "T"

\* str(s).replace("Z", "+00:00") on a timestamp text
ReplaceZ(s) == IF s[3] = "Z" THEN <<s[1], s[2], "+00:00">> ELSE s

\* datetime.fromisoformat: the day, and whether the value carries an offset
FromIsoFormat(s) == [day |-> s[2], aware |-> s[3] # ""]

None == [day |-> 0, aware |-> FALSE, none |-> TRUE]

\* parse_dt(s): None on a missing or empty cell and on any text that
\* fromisoformat rejects
ParseDt(s) ==
    IF IsNa(s) \/ s = <<>> THEN None
    ELSE IF IsTimestampText(s) THEN FromIsoFormat(ReplaceZ(s))
    ELSE None

IsDatetime(d) == d # None

(***************************************************************************)
(* freshness_score (in 1/10)                                               *)
(***************************************************************************)
\* each boundary value falling in the staler bin
FreshnessScoreExclusive(days) ==
    IF days = NoDays THEN 3
    ELSE IF days[1] < 365 THEN 10
    ELSE IF days[1] < 730 THEN 7
    ELSE IF days[1] < 1095 THEN 5
    ELSE 3

FreshnessScore(days) ==
    IF days = NoDays THEN 3
    ELSE IF days[1] <= 365 THEN 10
    ELSE IF days[1] <= 730 THEN 7
    ELSE IF days[1] <= 1095 THEN 5
    ELSE 3

(***************************************************************************)
(* Columns                                                                 *)
(***************************************************************************)
Socials ==
    <<"linkedin_url", "facebook_url", "twitter_url", "youtube_url",
      "instagram_url", "tiktok_url">>

SocialCols == {Socials[i] : i \in 1..Len(Socials)}

FeatureCols ==
    {"name_similarity", "country_match", "city_match", "has_website",
     "days_since_update", "freshness"}

LabelCols == {"rank_in_group", "decision", "decision_notes", "qc_flags"}

\* export_outputs' column list
ExportCols ==
    {"input_row_key", "input_company_name", "input_main_country_code",
     "input_main_city", "veridion_id", "company_name", "main_country_code",
     "main_city", "website_url", "name_similarity", "country_match",
     "city_match", "freshness", "has_website", "match_score", "decision",
     "decision_notes", "qc_flags"}

EmptyTable == [cols |-> {}, rows |-> <<>>]

\* df[name] = values: the column is added, or replaced when present
WithCols(r, new) == new @@ r

(***************************************************************************)
(* engineer_features                                                       *)
(***************************************************************************)
NameSimilarity(r) ==
    Sim(Get(r, "input_company_name", <<>>), Get(r, "company_name", <<>>))

\* elementwise == of the two raw cells: a missing cell equals nothing
CountryMatch(r) ==
    LET a == Get(r, "input_main_country_code", <<>>)
        b == Get(r, "main_country_code", <<>>)
    IN  IF ~IsNa(a) /\ ~IsNa(b) /\ a = b THEN 1 ELSE 0

CityMatch(r) ==
    LET a == Norm(Get(r, "input_main_city", <<>>))
        b == Norm(Get(r, "main_city", <<>>))
    IN  IF a # <<>> /\ a = b THEN 1 ELSE 0

HasWebsite(r) ==
    IF ~IsNa(r["website_url"]) /\ Len(Str(r["website_url"])) > 0 THEN 1 ELSE 0

\* (today - d).days for a parsed datetime, NaN otherwise
DaysSinceUpdate(r, today) ==
    LET d == ParseDt(r["last_updated_at"])
    IN  IF IsDatetime(d) THEN <<today - d.day>> ELSE NoDays

\* today - d raises TypeError when d carries no offset (today is UTC-aware)
SubtractRaises(r) ==
    LET d == ParseDt(r["last_updated_at"]) IN IsDatetime(d) /\ ~d.aware

\* the exception engineer_features raises on table t, or "" when it returns
EngineerError(t) ==
    IF "input_main_country_code" \notin t.cols /\ "main_country_code" \notin t.cols
    THEN "AttributeError"
    ELSE IF "website_url" \notin t.cols \/ "last_updated_at" \notin t.cols
    THEN "KeyError"
    ELSE IF \E i \in 1..Len(t.rows) : SubtractRaises(t.rows[i])
    THEN "TypeError"
    ELSE ""

EngineerRow(r, today) ==
    LET days == DaysSinceUpdate(r, today)
    IN  WithCols(r, [name_similarity |-> NameSimilarity(r),
                     country_match |-> CountryMatch(r),
                     city_match |-> CityMatch(r),
                     has_website |-> HasWebsite(r),
                     days_since_update |-> days,
                     freshness |-> FreshnessScore(days)])

engineer_features(t, today) ==
    [cols |-> t.cols \cup FeatureCols,
     rows |-> [i \in 1..Len(t.rows) |-> EngineerRow(t.rows[i], today)]]

(***************************************************************************)
(* score_candidates (weights in 1/100, match_score in 1/100000)            *)
(***************************************************************************)
DefaultWName == 60

DefaultWCountry == 15

DefaultWCity == 10

DefaultWFresh == 10

DefaultWWebsite == 5

\* the defaults used as a whole, unless the mapping supplies every weight
MatchScoreDefaultsTogether(r, w) ==
    LET u == IF DOMAIN w = {"name_similarity", "country_match", "city_match",
                            "freshness", "has_website"}
             THEN w ELSE <<>>
    IN    Get(u, "name_similarity", DefaultWName) * r["name_similarity"]
        + Get(u, "country_match", DefaultWCountry) * r["country_match"] * 1000
        + Get(u, "city_match", DefaultWCity) * r["city_match"] * 1000
        + Get(u, "freshness", DefaultWFresh) * r["freshness"] * 100
        + Get(u, "has_website", DefaultWWebsite) * r["has_website"] * 1000

MatchScore(r, w) ==
      Get(w, "name_similarity", DefaultWName) * r["name_similarity"]
    + Get(w, "country_match", DefaultWCountry) * r["country_match"] * 1000
    + Get(w, "city_match", DefaultWCity) * r["city_match"] * 1000
    + Get(w, "freshness", DefaultWFresh) * r["freshness"] * 100
    + Get(w, "has_website", DefaultWWebsite) * r["has_website"] * 1000

score_candidates(t, w) ==
    [cols |-> t.cols \cup {"match_score"},
     rows |-> [i \in 1..Len(t.rows) |->
                 WithCols(t.rows[i], [match_score |-> MatchScore(t.rows[i], w)])]]

(***************************************************************************)
(* decide, decision_notes (thresholds in 1/100)                            *)
(***************************************************************************)
DefaultNameFloor == 70

DefaultStrong == 75

DefaultReview == 60

\* the score rules tried before the hard floor
decide_score_first(r, th) ==
    LET name_floor == Get(th, "name_hard_floor", DefaultNameFloor)
        strong == Get(th, "strong", DefaultStrong)
        review == Get(th, "review", DefaultReview)
    IN  IF r["match_score"] >= strong * 1000 THEN "Matched"
        ELSE IF r["name_similarity"] < name_floor * 10 THEN "Unmatched"
        ELSE IF r["match_score"] >= review * 1000 THEN "Needs Review"
        ELSE "Unmatched"

\* the review rule tried before the strong rule
decide_review_first(r, th) ==
    LET name_floor == Get(th, "name_hard_floor", DefaultNameFloor)
        strong == Get(th, "strong", DefaultStrong)
        review == Get(th, "review", DefaultReview)
    IN  IF r["name_similarity"] < name_floor * 10 THEN "Unmatched"
        ELSE IF r["match_score"] >= review * 1000 THEN "Needs Review"
        ELSE IF r["match_score"] >= strong * 1000 THEN "Matched"
        ELSE "Unmatched"

decide(r, th) ==
    LET name_floor == Get(th, "name_hard_floor", DefaultNameFloor)
        strong == Get(th, "strong", DefaultStrong)
        review == Get(th, "review", DefaultReview)
    IN  IF r["name_similarity"] < name_floor * 10 THEN "Unmatched"
        ELSE IF r["match_score"] >= strong * 1000 THEN "Matched"
        ELSE IF r["match_score"] >= review * 1000 THEN "Needs Review"
        ELSE "Unmatched"

\* f"{x:.2f}": x (in 1/unit) rounded to hundredths
Fmt2(x, unit) == (x * 200 + unit) \div (2 * unit)

\* the audit bits, before "; ".join
decision_notes(r) ==
       << <<"name_sim", Fmt2(r["name_similarity"], 1000)>> >>
    \o << IF r["country_match"] = 1 THEN <<"country", 1>> ELSE <<"country", 0>> >>
    \o (IF r["city_match"] = 1 THEN << <<"city", 1>> >> ELSE <<>>)
    \o (IF r["has_website"] = 1 THEN << <<"website", 1>> >> ELSE <<>>)
    \o << <<"fresh", Fmt2(r["freshness"], 10)>> >>
    \o << <<"score", Fmt2(r["match_score"], 100000)>> >>

(***************************************************************************)
(* qc_flags_row: the flags before ", ".join (no flag name holds ", ", so   *)
(* the joined text and the list determine each other; "" is <<>>)          *)
(***************************************************************************)
\* the test without strip(): white space counts as a value
BlankUnstripped(x) == IsNa(x) \/ Str(x) = <<>>

\* pd.isna(x) or str(x).strip() == ""
Blank(x) == IsNa(x) \/ Strip(Str(x)) = <<>>

HasSocial(r) == \E i \in 1..Len(Socials) : ~Blank(Get(r, Socials[i], NaN))

StaleDays == 730

\* no quality check of a pair already decided Unmatched
qc_flags_row_unless_unmatched(r) ==
    IF Get(r, "decision", "") = "Unmatched" THEN <<>>
    ELSE   (IF Blank(Get(r, "main_postcode", NaN)) THEN <<"missing_postcode">> ELSE <<>>)
        \o (IF Blank(Get(r, "main_street", NaN)) THEN <<"missing_street">> ELSE <<>>)
        \o (IF Get(r, "has_website", 0) = 0 /\ ~HasSocial(r)
            THEN <<"no_website_no_social">> ELSE <<>>)
        \o (IF /\ Get(r, "days_since_update", NoDays) # NoDays
               /\ Get(r, "days_since_update", NoDays)[1] > StaleDays
            THEN <<"stale_update_>2y">> ELSE <<>>)
        \o (IF Blank(Get(r, "company_type", NaN)) THEN <<"missing_company_type">> ELSE <<>>)

qc_flags_row(r) ==
       (IF Blank(Get(r, "main_postcode", NaN)) THEN <<"missing_postcode">> ELSE <<>>)
    \o (IF Blank(Get(r, "main_street", NaN)) THEN <<"missing_street">> ELSE <<>>)
    \o (IF Get(r, "has_website", 0) = 0 /\ ~HasSocial(r)
        THEN <<"no_website_no_social">> ELSE <<>>)
    \o (IF /\ Get(r, "days_since_update", NoDays) # NoDays
           /\ Get(r, "days_since_update", NoDays)[1] > StaleDays
        THEN <<"stale_update_>2y">> ELSE <<>>)
    \o (IF Blank(Get(r, "company_type", NaN)) THEN <<"missing_company_type">> ELSE <<>>)

(***************************************************************************)
(* pick_top_and_label                                                      *)
(***************************************************************************)
NoRank == <<>>

\* rank(method="min"): tied pairs share a rank
RankInGroupMin(rows, i) ==
    LET k == rows[i]["input_row_key"]
        grp == {j \in 1..Len(rows) : rows[j]["input_row_key"] = k}
        s == rows[i]["match_score"]
    IN  IF IsNa(k) THEN NoRank
        ELSE << 1 + Cardinality({j \in grp : rows[j]["match_score"] > s}) >>

\* rank(method="first") without ascending=False: the lowest score ranks 1
RankInGroupAscending(rows, i) ==
    LET k == rows[i]["input_row_key"]
        grp == {j \in 1..Len(rows) : rows[j]["input_row_key"] = k}
        s == rows[i]["match_score"]
    IN  IF IsNa(k) THEN NoRank
        ELSE << 1 + Cardinality({j \in grp : rows[j]["match_score"] < s})
                  + Cardinality({j \in grp : j < i /\ rows[j]["match_score"] = s}) >>

\* groupby("input_row_key")["match_score"].rank(method="first",
\* ascending=False): rows whose key is missing belong to no group
RankInGroup(rows, i) ==
    LET k == rows[i]["input_row_key"]
        grp == {j \in 1..Len(rows) : rows[j]["input_row_key"] = k}
        s == rows[i]["match_score"]
    IN  IF IsNa(k) THEN NoRank
        ELSE << 1 + Cardinality({j \in grp : rows[j]["match_score"] > s})
                  + Cardinality({j \in grp : j < i /\ rows[j]["match_score"] = s}) >>

\* df[mask]: the rows that satisfy the mask, in table order
RECURSIVE Filter(_, _, _)
Filter(rows, mask, i) ==
    IF i > Len(rows) THEN <<>>
    ELSE (IF mask[i] THEN <<rows[i]>> ELSE <<>>) \o Filter(rows, mask, i + 1)

IsTop(r) == r["rank_in_group"] = <<1>>

LabelRow(r, th) ==
    LET d == WithCols(r, [decision |-> decide(r, th)])
        n == WithCols(d, [decision_notes |-> decision_notes(d)])
    IN  WithCols(n, [qc_flags |-> qc_flags_row(n)])

pick_top_and_label(t, th) ==
    LET ranked == [i \in 1..Len(t.rows) |->
                     WithCols(t.rows[i], [rank_in_group |-> RankInGroup(t.rows, i)])]
        best == Filter(ranked, [i \in 1..Len(ranked) |-> IsTop(ranked[i])], 1)
    IN  [cols |-> t.cols \cup LabelCols,
         rows |-> [i \in 1..Len(best) |-> LabelRow(best[i], th)]]

(***************************************************************************)
(* export_outputs                                                          *)
(***************************************************************************)
\* top_df[cols]: the projection (the index label stays until reset_index)
Project(r) == [c \in ExportCols \cup {"index"} |-> r[c]]

\* "Matched" < "Needs Review" < "Unmatched" as Python compares strings:
\* by the first character, "M" < "N" < "U"
DecisionKey(d) ==
    CASE d = "Matched" -> 1 [] d = "Needs Review" -> 2 [] d = "Unmatched" -> 3

\* both keys ascending
SortsBeforeAscending(a, b) ==
    \/ DecisionKey(a["decision"]) < DecisionKey(b["decision"])
    \/ a["decision"] = b["decision"] /\ a["match_score"] < b["match_score"]

\* sort_values(["decision", "match_score"], ascending=[True, False])
SortsBefore(a, b) ==
    \/ DecisionKey(a["decision"]) < DecisionKey(b["decision"])
    \/ a["decision"] = b["decision"] /\ a["match_score"] > b["match_score"]

RECURSIVE Insert(_, _)
Insert(s, x) ==
    IF s = <<>> THEN <<x>>
    ELSE IF SortsBefore(x, s[Len(s)])
         THEN Insert(SubSeq(s, 1, Len(s) - 1), x) \o <<s[Len(s)]>>
         ELSE s \o <<x>>

\* the multi-key sort is a stable lexsort
RECURSIVE SortValues(_)
SortValues(rows) ==
    IF rows = <<>> THEN <<>>
    ELSE Insert(SortValues(SubSeq(rows, 1, Len(rows) - 1)), rows[Len(rows)])

\* reset_index(drop=True)
ResetIndex(rows) == [i \in 1..Len(rows) |-> [rows[i] EXCEPT !["index"] = i - 1]]

\* to_csv(index=False): the row as written
Written(r) == [c \in ExportCols |-> r[c]]

Flag(r) == IF r["qc_flags"] = <<>> THEN "clean" ELSE "has_flags"

\* the (decision, flag) groups in groupby's sorted key order
GroupKeys ==
    << <<"Matched", "clean">>, <<"Matched", "has_flags">>,
       <<"Needs Review", "clean">>, <<"Needs Review", "has_flags">>,
       <<"Unmatched", "clean">>, <<"Unmatched", "has_flags">> >>

GroupSize(rows, k) ==
    Cardinality({i \in 1..Len(rows) : rows[i]["decision"] = k[1] /\ Flag(rows[i]) = k[2]})

NonEmptyGroup(g) == g["rows"] > 0

\* groupby(["decision", "flag"]).size().reset_index(name="rows")
QcSummary(rows) ==
    LET groups == [i \in 1..Len(GroupKeys) |->
                     [decision |-> GroupKeys[i][1], flag |-> GroupKeys[i][2],
                      rows |-> GroupSize(rows, GroupKeys[i])]]
    IN  Filter(groups, [i \in 1..Len(groups) |-> NonEmptyGroup(groups[i])], 1)

IsMatched(r) == r["decision"] = "Matched"

IsNeedsReview(r) == r["decision"] = "Needs Review"

IsUnmatched(r) == r["decision"] = "Unmatched"

WrittenRows(rows) == [i \in 1..Len(rows) |-> Written(rows[i])]

\* the file opened for appending: rows pile up after those of an earlier run
to_csv_append(fs, name, content) == (name :> (Get(fs, name, <<>>) \o content)) @@ fs

\* DataFrame.to_csv(path): the file is created or overwritten
to_csv(fs, name, content) == (name :> content) @@ fs

export_outputs(t, fs) ==
    LET matches == ResetIndex(SortValues([i \in 1..Len(t.rows) |-> Project(t.rows[i])]))
        f1 == to_csv(fs, "matches_decisions.csv", WrittenRows(matches))
        f2 == to_csv(f1, "matched_only.csv", WrittenRows(Filter(matches, [i \in 1..Len(matches) |-> IsMatched(matches[i])], 1)))
        f3 == to_csv(f2, "needs_review.csv", WrittenRows(Filter(matches, [i \in 1..Len(matches) |-> IsNeedsReview(matches[i])], 1)))
        f4 == to_csv(f3, "unmatched.csv", WrittenRows(Filter(matches, [i \in 1..Len(matches) |-> IsUnmatched(matches[i])], 1)))
    IN  to_csv(f4, "qc_summary.csv", QcSummary(matches))

(***************************************************************************)
(* summarize                                                               *)
(***************************************************************************)
\* no summary computed yet
NoSummary == <<>>

Decisions == {"Matched", "Needs Review", "Unmatched"}

\* value_counts(dropna=False).to_dict(): a count for each value that occurs
ValueCounts(rows) ==
    LET present == {rows[i]["decision"] : i \in 1..Len(rows)}
    IN  [d \in present |-> Cardinality({i \in 1..Len(rows) : rows[i]["decision"] = d})]

\* qc_flags.fillna("").str.strip() == "": the cell is the ";"-joined flag
\* names, which is empty or white space only exactly when no flag was joined
Clean(r) == IsNa(r["qc_flags"]) \/ r["qc_flags"] = <<>>

\* every row counted as flagged
summarize_all_flagged(t) ==
    [total_rows |-> Len(t.rows),
     decision_counts |-> ValueCounts(t.rows),
     clean_rows |-> 0,
     has_flags_rows |-> Len(t.rows)]

summarize(t) ==
    [total_rows |-> Len(t.rows),
     decision_counts |-> ValueCounts(t.rows),
     clean_rows |-> Cardinality({i \in 1..Len(t.rows) : Clean(t.rows[i])}),
     has_flags_rows |-> Cardinality({i \in 1..Len(t.rows) : ~Clean(t.rows[i])})]

(***************************************************************************)
(* run_pipeline, one stage per step                                        *)
(***************************************************************************)
\* pd.read_csv: an empty field is read as NaN; rows get a RangeIndex
ReadCell(x) == IF x = <<>> THEN NaN ELSE x

read_csv(t) ==
    [cols |-> t.cols,
     rows |-> [i \in 1..Len(t.rows) |->
                 [c \in t.cols \cup {"index"} |->
                    IF c = "index" THEN i - 1 ELSE ReadCell(t.rows[i][c])]]]

Fail(e) ==
    /\ pc' = "failed"
    /\ err' = e

ReadCsv ==
    /\ pc = "start"
    /\ df' = read_csv(csv)
    /\ pc' = "read"
    /\ UNCHANGED <<csv, top, files, weights, thresholds, now, run, prev, err, summary>>

EngineerFeatures ==
    /\ pc = "read"
    /\ IF EngineerError(df) # ""
       THEN Fail(EngineerError(df)) /\ UNCHANGED df
       ELSE /\ df' = engineer_features(df, now)
            /\ pc' = "engineered"
            /\ UNCHANGED err
    /\ UNCHANGED <<csv, top, files, weights, thresholds, now, run, prev, summary>>

ScoreCandidates ==
    /\ pc = "engineered"
    /\ df' = score_candidates(df, weights)
    /\ pc' = "scored"
    /\ UNCHANGED <<csv, top, files, weights, thresholds, now, run, prev, err, summary>>

\* top.apply(..., axis=1) on a selection without rows: pandas probes the
\* function on an empty Series; releases whose probe has no column labels
\* get a KeyError from decide, hand back a DataFrame, and the assignment
\* top["decision"] = ... raises ValueError; releases whose probe carries
\* the columns return the empty labeled table.  Both outcomes are kept.
EmptyApplyRaises(t) ==
    IF \E i \in 1..Len(t.rows) : RankInGroup(t.rows, i) = <<1>> THEN {FALSE}
    ELSE BOOLEAN

PickTopAndLabel ==
    /\ pc = "scored"
    /\ IF "input_row_key" \notin df.cols
       THEN Fail("KeyError") /\ UNCHANGED top
       ELSE \E raises \in EmptyApplyRaises(df) :
                IF raises
                THEN Fail("ValueError") /\ UNCHANGED top
                ELSE /\ top' = pick_top_and_label(df, thresholds)
                     /\ pc' = "labeled"
                     /\ UNCHANGED err
    /\ UNCHANGED <<csv, df, files, weights, thresholds, now, run, prev, summary>>

ExportOutputs ==
    /\ pc = "labeled"
    /\ IF ~(ExportCols \subseteq top.cols)
       THEN Fail("KeyError") /\ UNCHANGED files
       ELSE /\ files' = export_outputs(top, files)
            /\ pc' = "done"
            /\ UNCHANGED err
    /\ UNCHANGED <<csv, df, top, weights, thresholds, now, run, prev, summary>>

(***************************************************************************)
(* A second run of the pipeline on the same file and configuration, at the *)
(* same or a later clock reading                                           *)
(***************************************************************************)
MaxRuns == 2

MaxClockStep == 1

\* what a run leaves behind: the files in the output directory and the
\* table it returned (none when it raised)
\* the qc_flags column of a table without rows may have come out of apply
\* as a numeric column, on which the .str accessor raises
EmptyStrRaises(t) == IF Len(t.rows) > 0 THEN {FALSE} ELSE BOOLEAN

\* main: summary = summarize(top), after run_pipeline has returned
Summarize ==
    /\ pc = "done"
    /\ summary = NoSummary
    /\ \E raises \in EmptyStrRaises(top) :
           IF raises
           THEN Fail("AttributeError") /\ UNCHANGED summary
           ELSE /\ summary' = summarize(top)
                /\ UNCHANGED <<pc, err>>
    /\ UNCHANGED <<csv, df, top, files, weights, thresholds, now, run, prev>>

Outputs == [files |-> files, top |-> IF pc = "done" THEN top ELSE EmptyTable]

NoPrev == [now |-> 0, outputs |-> [files |-> <<>>, top |-> EmptyTable]]

Rerun ==
    /\ pc \in {"done", "failed"}
    /\ run < MaxRuns
    /\ prev' = [now |-> now, outputs |-> Outputs]
    /\ run' = run + 1
    /\ \E d \in 0..MaxClockStep : now' = now + d
    /\ pc' = "start"
    /\ df' = EmptyTable
    /\ top' = EmptyTable
    /\ err' = ""
    /\ summary' = NoSummary
    /\ UNCHANGED <<csv, files, weights, thresholds>>

(***************************************************************************)
(* Inputs                                                                  *)
(***************************************************************************)
MaxRows == 2

\* datetime.now(timezone.utc) of the first run, in days
Now0 == 2000

BaseCsvRow ==
    [input_row_key |-> <<"1">>, input_company_name |-> <<"A", "b">>,
     input_main_country_code |-> <<"U">>, input_main_city |-> <<" ", "a">>,
     veridion_id |-> <<"v">>, company_name |-> <<"a", "b">>,
     main_country_code |-> <<"U">>, main_city |-> <<"A">>,
     website_url |-> <<"w">>, last_updated_at |-> <<"T", Now0 - 365, "Z">>,
     main_postcode |-> <<"7">>, main_street |-> <<"s">>, company_type |-> <<"c">>,
     linkedin_url |-> <<>>, facebook_url |-> <<>>, twitter_url |-> <<>>,
     youtube_url |-> <<>>, instagram_url |-> <<>>, tiktok_url |-> <<>>]

AllCols == DOMAIN BaseCsvRow

RequiredCols ==
    {"input_row_key", "input_company_name", "input_main_country_code",
     "input_main_city", "company_name", "main_country_code", "main_city",
     "website_url", "last_updated_at"}

OptionalCols == {"main_postcode", "main_street", "company_type"} \cup SocialCols

\* the texts a last_updated_at field holds: empty, unparseable, a timestamp
\* with a trailing Z, with an offset, without any offset
StampTexts ==
    {<<>>, <<"x">>, <<"T", Now0 - 365, "Z">>, <<"T", Now0 - 730, "+02:00">>,
     <<"T", Now0 - 365, "">>}

CsvRow(k, ts) ==
    [BaseCsvRow EXCEPT !["input_row_key"] = k, !["last_updated_at"] = ts,
                       !["company_name"] = IF k = <<"2">> THEN <<"b">> ELSE @]

TablesOf(R, n) == UNION {[1..m -> R] : m \in 1..n}

Restrict(r, cs) == [c \in cs |-> r[c]]

\* with every column present: rows of two input records, any timestamp
\* text (every row has a key, so the selection is never empty)
CsvTimestampTables ==
    {[cols |-> AllCols, rows |-> rs] :
       rs \in TablesOf({CsvRow(k, ts) : k \in {<<"1">>, <<"2">>}, ts \in StampTexts},
                       MaxRows)}

\* ages of a last_updated_at at the first run, in days: on both sides of
\* each bin boundary of freshness_score, today, and a day ahead of the clock
AgeDays == {-1, 0, 365, 366, 730, 731, 1095, 1096}

\* with every column present: a row for each of two input records, with a
\* timestamp of any of these ages
CsvAgeTables ==
    {[cols |-> AllCols,
      rows |-> <<CsvRow(<<"1">>, <<"T", Now0 - d1, "Z">>),
                 CsvRow(<<"2">>, <<"T", Now0 - d2, "+00:00">>)>>] :
       d1 \in AgeDays, d2 \in AgeDays}

\* with every column present: one row, its names, cities and website
\* missing, blank, equal up to case and spacing, or different
CsvFeatureTables ==
    {[cols |-> AllCols,
      rows |-> <<[BaseCsvRow EXCEPT !["input_company_name"] = n,
                                    !["input_main_city"] = ic,
                                    !["main_city"] = c,
                                    !["website_url"] = w]>>] :
       n \in {<<>>, <<"A", "b">>, <<"c">>},
       ic \in {<<>>, <<" ">>, <<" ", "a">>, <<"b">>},
       c \in {<<>>, <<" ">>, <<"A">>},
       w \in {<<>>, <<"w">>}}

ColumnSets ==
    {AllCols} \cup {AllCols \ {c} : c \in AllCols} \cup {AllCols \ OptionalCols}
    \cup {AllCols \ {"input_main_country_code", "main_country_code"}}

\* with a column, or all optional columns, missing from the header
CsvColumnTables ==
    {[cols |-> cs, rows |-> [i \in 1..Len(rs) |-> Restrict(rs[i], cs)]] :
       cs \in ColumnSets,
       rs \in TablesOf({CsvRow(<<"1">>, <<"T", Now0 - 365, "Z">>),
                        CsvRow(<<"2">>, <<"T", Now0 - 365, "">>)}, MaxRows)}

Idle ==
    /\ top = EmptyTable
    /\ files = <<>>
    /\ run = 1
    /\ prev = NoPrev
    /\ err = ""
    /\ now = Now0
    /\ summary = NoSummary

Init ==
    /\ pc = "start"
    /\ csv \in CsvTimestampTables \cup CsvColumnTables \cup CsvAgeTables
                \cup CsvFeatureTables
    /\ df = EmptyTable
    /\ weights = <<>>
    /\ thresholds = <<>>
    /\ Idle

Next ==
    \/ ReadCsv
    \/ EngineerFeatures
    \/ ScoreCandidates
    \/ PickTopAndLabel
    \/ ExportOutputs
    \/ Summarize
    \/ Rerun

Spec == Init /\ [][Next]_vars

(***************************************************************************)
(* The stages called directly on a table that carries the feature columns  *)
(* (score_candidates, pick_top_and_label and export_outputs are public     *)
(* functions of the module), under any weights and thresholds mappings     *)
(***************************************************************************)
MaxPairs == 3

\* the base row as engineer_features returns it
FeatureBase ==
    EngineerRow(read_csv([cols |-> AllCols, rows |-> <<BaseCsvRow>>]).rows[1], Now0)

\* a RangeIndex on the rows
WithRangeIndex(rs) == [i \in 1..Len(rs) |-> [rs[i] EXCEPT !["index"] = i - 1]]

FeatureTable(rs) == [cols |-> AllCols \cup FeatureCols, rows |-> WithRangeIndex(rs)]

\* pairs of two input records and of none (missing key), three
\* name similarities: groups with and without score ties
SelectRows ==
    {[FeatureBase EXCEPT !["input_row_key"] = k, !["name_similarity"] = n] :
       k \in {<<"1">>, <<"2">>, NaN}, n \in {650, 800, 920}}

SelectTables == {FeatureTable(rs) : rs \in TablesOf(SelectRows, MaxPairs)}

WeightKeys == {"name_similarity", "country_match", "city_match", "freshness", "has_website"}

\* a non-default value for each weight: above 1, negative, zero
OtherWeight ==
    [name_similarity |-> 200, country_match |-> 26, city_match |-> 0,
     freshness |-> 50, has_website |-> -50]

\* every mapping that supplies some of the weights and leaves the others out
WeightMaps == {[k \in K |-> OtherWeight[k]] : K \in SUBSET WeightKeys}

ThresholdKeys == {"strong", "review", "name_hard_floor"}

OtherThreshold == [strong |-> 90, review |-> 95, name_hard_floor |-> 60]

ThresholdMaps == {[k \in K |-> OtherThreshold[k]] : K \in SUBSET ThresholdKeys}

DecideRow(k, n, c) ==
    [FeatureBase EXCEPT !["input_row_key"] = k, !["name_similarity"] = n,
                        !["country_match"] = c]

\* one pair for each of two input records
DecideTables ==
    {FeatureTable(<<DecideRow(<<"1">>, n1, c1), DecideRow(<<"2">>, n2, c2)>>) :
       n1 \in {650, 700, 920}, c1 \in {0, 1}, n2 \in {650, 700, 920}, c2 \in {0, 1}}

\* the six social cells: all missing, all blank, one profile present
SocialOptions ==
    {[c \in SocialCols |-> NaN], [c \in SocialCols |-> <<" ">>],
     [c \in SocialCols |-> IF c = "tiktok_url" THEN <<"t">> ELSE NaN],
     [c \in SocialCols |-> IF c = "linkedin_url" THEN <<"l">> ELSE <<>>]}

QcRow(postcode, street, hw, soc, days, ctype) ==
    [c \in DOMAIN FeatureBase |->
       CASE c = "main_postcode" -> postcode
         [] c = "main_street" -> street
         [] c = "has_website" -> hw
         [] c = "website_url" -> IF hw = 1 THEN <<"w">> ELSE NaN
         [] c \in SocialCols -> soc[c]
         [] c = "days_since_update" -> days
         [] c = "last_updated_at" ->
                IF days = NoDays THEN NaN ELSE <<"T", Now0 - days[1], "Z">>
         [] c = "freshness" -> FreshnessScore(days)
         [] c = "company_type" -> ctype
         [] OTHER -> FeatureBase[c]]

QcRows ==
    {QcRow(p, s, hw, soc, d, ct) :
       p \in {NaN, <<" ">>, <<"7">>}, s \in {NaN, <<>>, <<"s">>}, hw \in {0, 1},
       soc \in SocialOptions, d \in {NoDays, <<StaleDays>>, <<StaleDays + 1>>},
       ct \in {NaN, <<" ">>, <<"c">>}}

\* a pair, and a pair of another input record with the same candidate
\* fields or another postcode, and another name similarity
QcTables ==
    {FeatureTable(<<r, [r EXCEPT !["input_row_key"] = <<"2">>,
                                 !["name_similarity"] = n,
                                 !["main_postcode"] = p]>>) :
       r \in QcRows, n \in {650, 920}, p \in {NaN, <<"7">>}}

\* one pair for each of four input records, in every order of decisions
\* and of scores
ExportRows(k) == {DecideRow(k, n, c) : n \in {650, 700, 920}, c \in {0, 1}}

ExportTables ==
    {FeatureTable(<<r1, r2, r3, r4>>) :
       r1 \in ExportRows(<<"1">>), r2 \in ExportRows(<<"2">>),
       r3 \in ExportRows(<<"3">>), r4 \in ExportRows(<<"4">>)}

InitStages ==
    /\ pc = "engineered"
    /\ csv = EmptyTable
    /\ \/ /\ df \in SelectTables \cup QcTables \cup ExportTables
          /\ weights = <<>> /\ thresholds = <<>>
       \/ df \in DecideTables /\ weights \in WeightMaps /\ thresholds \in ThresholdMaps
    /\ Idle

NextStages ==
    \/ ScoreCandidates
    \/ PickTopAndLabel
    \/ ExportOutputs
    \/ Summarize

SpecStages == InitStages /\ [][NextStages]_vars

(***************************************************************************)
(* Properties                                                              *)
(***************************************************************************)
\* pick_top_and_label has returned: df is the table it was given, top the
\* table it returned
Labeled == pc \in {"labeled", "done"}

Rows(t) == {t.rows[i] : i \in 1..Len(t.rows)}

\* the input_row_key values of a table (a missing key is no value)
KeysOf(t) == {r["input_row_key"] : r \in Rows(t)} \ {NaN}

TopsOfKey(k) == {i \in 1..Len(top.rows) : top.rows[i]["input_row_key"] = k}

\* C1: pick_top_and_label returns exactly one TopMatch for each distinct
\* input_row_key value that has at least one pair and no other row, so the
\* number of TopMatches is the number of distinct key values present (pairs
\* whose key is missing carry no key value and yield no TopMatch).
C1_OneTopMatchPerKey ==
    Labeled =>
        /\ \A k \in KeysOf(df) : Cardinality(TopsOfKey(k)) = 1
        /\ \A i \in 1..Len(top.rows) : top.rows[i]["input_row_key"] \in KeysOf(df)
        /\ Len(top.rows) = Cardinality(KeysOf(df))

\* three pairs, two of them of one input record with tied scores, one of
\* another
C1_Witness ==
    /\ Labeled
    /\ Len(df.rows) = 3
    /\ Cardinality(KeysOf(df)) = 2
    /\ \E i, j \in 1..3 :
         /\ i < j
         /\ df.rows[i]["input_row_key"] = df.rows[j]["input_row_key"]
         /\ df.rows[i]["match_score"] = df.rows[j]["match_score"]
    /\ Len(top.rows) = 2

GroupOf(k) == {j \in 1..Len(df.rows) : df.rows[j]["input_row_key"] = k}

\* C4: the TopMatch of a group is a pair of that group whose match_score is
\* at least that of every pair of the group, and among the pairs with that
\* score it is the first in table order.
C4_TopIsFirstMaximum ==
    Labeled =>
        \A i \in 1..Len(top.rows) :
            LET r == top.rows[i]
                p == r["index"] + 1
            IN  /\ p \in GroupOf(r["input_row_key"])
                /\ r["match_score"] = df.rows[p]["match_score"]
                /\ \A j \in GroupOf(r["input_row_key"]) :
                       /\ df.rows[j]["match_score"] <= r["match_score"]
                       /\ df.rows[j]["match_score"] = r["match_score"] => p <= j

\* a group of three pairs, the first below the two others, which tie: the
\* second pair is the TopMatch
C4_Witness ==
    /\ Labeled
    /\ Len(df.rows) = 3
    /\ Cardinality(KeysOf(df)) = 1
    /\ GroupOf(df.rows[1]["input_row_key"]) = {1, 2, 3}
    /\ df.rows[1]["match_score"] < df.rows[2]["match_score"]
    /\ df.rows[2]["match_score"] = df.rows[3]["match_score"]
    /\ Len(top.rows) = 1
    /\ top.rows[1]["index"] = 1

\* the hard floor in force, in name_similarity's unit: 0.70 when the
\* mapping has no name_hard_floor
FloorInForce ==
    IF "name_hard_floor" \in DOMAIN thresholds THEN thresholds["name_hard_floor"] * 10
    ELSE 700

\* the Matched cutoff in force, in match_score's unit
StrongInForce ==
    IF "strong" \in DOMAIN thresholds THEN thresholds["strong"] * 1000 ELSE 75000

\* C2: a top pair whose name_similarity is below name_hard_floor (0.70 when
\* the key is absent) is decided Unmatched, whatever its match_score.
C2_HardVeto ==
    Labeled =>
        \A r \in Rows(top) :
            r["name_similarity"] < FloorInForce => r["decision"] = "Unmatched"

\* name_similarity 0.65 with match_score 0.90 under the default thresholds
C2_Witness ==
    /\ Labeled
    /\ thresholds = <<>>
    /\ \E r \in Rows(top) :
         /\ r["name_similarity"] = 650
         /\ r["match_score"] = 90000
         /\ r["match_score"] >= StrongInForce
         /\ r["decision"] = "Unmatched"

\* C3: of two top pairs with the same name_similarity, at or above the hard
\* floor, decided under the same thresholds, the one with the higher (or
\* equal) match_score is Matched whenever the other one is.
C3_MonotoneInScore ==
    Labeled =>
        \A r1, r2 \in Rows(top) :
            ( /\ r1["name_similarity"] = r2["name_similarity"]
              /\ r1["name_similarity"] >= FloorInForce
              /\ r1["match_score"] <= r2["match_score"]
              /\ r1["decision"] = "Matched" )
            => r2["decision"] = "Matched"

\* two Matched pairs with the same name_similarity and different scores,
\* under thresholds whose review cutoff lies between the two scores
C3_Witness ==
    /\ Labeled
    /\ "review" \in DOMAIN thresholds
    /\ \E r1, r2 \in Rows(top) :
         /\ r1["name_similarity"] = r2["name_similarity"]
         /\ r1["name_similarity"] >= FloorInForce
         /\ r1["match_score"] < thresholds["review"] * 1000
         /\ thresholds["review"] * 1000 <= r2["match_score"]
         /\ r1["decision"] = "Matched"
         /\ r2["decision"] = "Matched"

\* the candidate's raw fields that the quality flags are about
CandidateFields ==
    {"main_postcode", "main_street", "website_url", "last_updated_at", "company_type"}
    \cup SocialCols

\* C8: two top pairs that agree on the candidate fields (postcode, street,
\* website, the six social URLs, last-update timestamp, company type) carry
\* the same flag list, whatever their match_score and decision.
C8_FlagsIgnoreScoreAndDecision ==
    Labeled =>
        \A r1, r2 \in Rows(top) :
            (\A c \in CandidateFields : r1[c] = r2[c]) => r1["qc_flags"] = r2["qc_flags"]

\* two flagged top pairs with the same candidate fields, different scores
\* and different decisions
C8_Witness ==
    /\ Labeled
    /\ \E r1, r2 \in Rows(top) :
         /\ \A c \in CandidateFields : r1[c] = r2[c]
         /\ r1["match_score"] # r2["match_score"]
         /\ r1["decision"] = "Matched"
         /\ r2["decision"] = "Unmatched"
         /\ r1["qc_flags"] # <<>>
         /\ r1["qc_flags"] = r2["qc_flags"]

\* a cell that is null, empty or white space only
BlankOrNull(x) == x = NaN \/ \A i \in 1..Len(x) : x[i] = " "

FlagOrder ==
    <<"missing_postcode", "missing_street", "no_website_no_social",
      "stale_update_>2y", "missing_company_type">>

\* the condition, on the top pair r, of the n-th flag
FlagCondition(n, r) ==
    CASE n = 1 -> BlankOrNull(r["main_postcode"])
      [] n = 2 -> BlankOrNull(r["main_street"])
      [] n = 3 -> r["has_website"] = 0 /\ \A c \in SocialCols : BlankOrNull(r[c])
      [] n = 4 -> r["days_since_update"] # NoDays /\ r["days_since_update"][1] > 730
      [] n = 5 -> BlankOrNull(r["company_type"])

\* C9: qc_flags_row returns exactly the flags whose condition holds, each
\* once, in the fixed order missing_postcode, missing_street,
\* no_website_no_social, stale_update_>2y, missing_company_type (the empty
\* result when none holds).
C9_FlagsExactInOrder ==
    Labeled =>
        \A r \in Rows(top) :
            LET f == r["qc_flags"]
            IN  /\ \A n \in 1..Len(FlagOrder) :
                      FlagCondition(n, r) <=> \E i \in 1..Len(f) : f[i] = FlagOrder[n]
                /\ \A i, j \in 1..Len(f) :
                      i < j => \E n, m \in 1..Len(FlagOrder) :
                                   n < m /\ f[i] = FlagOrder[n] /\ f[j] = FlagOrder[m]
                /\ \A i \in 1..Len(f) : \E n \in 1..Len(FlagOrder) : f[i] = FlagOrder[n]

\* postcode and street blank, no website, no social profile, company type
\* present, updated exactly 730 days ago: the three flags in order
C9_Witness ==
    /\ Labeled
    /\ \E r \in Rows(top) :
         /\ r["main_postcode"] = <<" ">>
         /\ r["main_street"] = <<>>
         /\ r["has_website"] = 0
         /\ \A c \in SocialCols : r[c] = <<" ">>
         /\ r["company_type"] = <<"c">>
         /\ r["days_since_update"] = <<730>>
         /\ r["qc_flags"] = <<"missing_postcode", "missing_street", "no_website_no_social">>

Scored == pc \in {"scored", "labeled", "done"}

\* the weight in force for a feature: the mapping's, or the default d/100
WeightInForce(k, d) == IF k \in DOMAIN weights THEN weights[k] ELSE d

IsExamplePair(r) ==
    /\ r["name_similarity"] = 920
    /\ r["country_match"] = 1
    /\ r["city_match"] = 1
    /\ r["has_website"] = 1
    /\ r["freshness"] = 10

\* C10: match_score is the weighted sum of the five features, each weight
\* taken from the mapping or, when absent from it, from its own default
\* (0.6, 0.15, 0.1, 0.1, 0.05), without clamping; under the default
\* weights the pair (0.92, 1, 1, 1, 1.0) scores 0.952 and, under the
\* default thresholds, is decided Matched.
C10_WeightedSum ==
    /\ Scored =>
         \A r \in Rows(df) :
             /\ r["match_score"] =
                    WeightInForce("name_similarity", 60) * r["name_similarity"]
                  + WeightInForce("country_match", 15) * r["country_match"] * 1000
                  + WeightInForce("city_match", 10) * r["city_match"] * 1000
                  + WeightInForce("freshness", 10) * r["freshness"] * 100
                  + WeightInForce("has_website", 5) * r["has_website"] * 1000
             /\ weights = <<>> /\ IsExamplePair(r) => r["match_score"] = 95200
    /\ Labeled =>
         \A r \in Rows(top) :
             weights = <<>> /\ thresholds = <<>> /\ IsExamplePair(r)
             => r["decision"] = "Matched"

\* the example pair, scored 0.952 and Matched
C10_Witness ==
    /\ Labeled
    /\ weights = <<>>
    /\ thresholds = <<>>
    /\ \E r \in Rows(top) :
         /\ IsExamplePair(r)
         /\ r["match_score"] = 95200
         /\ r["decision"] = "Matched"

\* run_pipeline has returned or raised
Finished == pc \in {"done", "failed"}

EngineerRaised == pc = "failed" /\ "freshness" \notin df.cols

\* the columns engineer_features cannot do without are in the table
EngineerColumnsPresent ==
    /\ {"website_url", "last_updated_at"} \subseteq df.cols
    /\ {"input_main_country_code", "main_country_code"} \cap df.cols # {}

\* parse_dt gives None for a cell: it is missing or no timestamp text
Unparsed(x) == x = NaN \/ ~(Len(x) = 3 /\ x[1] = "T")

\* C6: whatever the last_updated_at cells hold, engineer_features returns,
\* and a row whose cell is empty or unparseable gets days_since_update
\* unknown and freshness 0.3.
C6_LastUpdatedNeverRaises ==
    /\ EngineerRaised => ~EngineerColumnsPresent
    /\ pc \in {"engineered", "scored", "labeled", "done"} =>
           \A r \in Rows(df) :
               Unparsed(r["last_updated_at"])
               => r["days_since_update"] = NoDays /\ r["freshness"] = 3

MissingCols == AllCols \ csv.cols

\* C7: a run on a table that lacks one of the required feature-input
\* columns aborts and produces no labeled output; a run on a table that
\* lacks only optional columns completes.
C7_RequiredAbortOptionalTolerated ==
    Finished =>
        /\ MissingCols \cap RequiredCols # {}
           => pc = "failed" /\ Outputs = prev.outputs
        /\ MissingCols # {} /\ MissingCols \subseteq OptionalCols
           => pc = "done"

\* the rows of a written file
File(name) == files[name]

WithDecision(rows, d) == SelectSeq(rows, LAMBDA r : r["decision"] = d)

Range(rows) == {rows[i] : i \in 1..Len(rows)}

Exported == pc = "done"

\* C11: in matches_decisions.csv every Matched row precedes every Needs
\* Review row, which precedes every Unmatched row, and within one decision
\* match_score is non-increasing; matched_only.csv, needs_review.csv and
\* unmatched.csv are pairwise disjoint, each holds exactly the full table's
\* rows with its decision, and together they hold every row of the full
\* table.
C11_SortedAndPartitioned ==
    Exported =>
        LET full == File("matches_decisions.csv")
            m == File("matched_only.csv")
            n == File("needs_review.csv")
            u == File("unmatched.csv")
        IN  /\ \A i, j \in 1..Len(full) :
                   i < j =>
                      /\ DecisionKey(full[i]["decision"]) <= DecisionKey(full[j]["decision"])
                      /\ full[i]["decision"] = full[j]["decision"]
                            => full[i]["match_score"] >= full[j]["match_score"]
            /\ Range(m) \cap Range(n) = {}
            /\ Range(m) \cap Range(u) = {}
            /\ Range(n) \cap Range(u) = {}
            /\ m = WithDecision(full, "Matched")
            /\ n = WithDecision(full, "Needs Review")
            /\ u = WithDecision(full, "Unmatched")
            /\ Range(m) \cup Range(n) \cup Range(u) = Range(full)
            /\ Len(m) + Len(n) + Len(u) = Len(full)
            /\ Len(full) = Len(top.rows)

\* four top pairs given as Unmatched, Needs Review, Matched and Matched
\* with a higher score: the written table has them the other way round,
\* and each of the three partial tables its own rows
C11_Witness ==
    /\ Exported
    /\ Len(top.rows) = 4
    /\ top.rows[1]["decision"] = "Unmatched"
    /\ top.rows[2]["decision"] = "Needs Review"
    /\ top.rows[3]["decision"] = "Matched"
    /\ top.rows[4]["decision"] = "Matched"
    /\ top.rows[3]["match_score"] < top.rows[4]["match_score"]
    /\ File("matches_decisions.csv") =
          <<Written(top.rows[4]), Written(top.rows[3]),
            Written(top.rows[2]), Written(top.rows[1])>>
    /\ File("matched_only.csv") = <<Written(top.rows[4]), Written(top.rows[3])>>
    /\ File("needs_review.csv") = <<Written(top.rows[2])>>
    /\ File("unmatched.csv") = <<Written(top.rows[1])>>

Summarized == summary # NoSummary

\* the count of a decision in decision_counts, a decision without rows
\* counting as 0
CountOf(d) ==
    IF d \in DOMAIN summary["decision_counts"] THEN summary["decision_counts"][d] ELSE 0

\* the rows of qc_summary.csv's groups with the given flag, added up
RECURSIVE AggregateRows(_, _)
AggregateRows(groups, flag) ==
    IF groups = <<>> THEN 0
    ELSE (IF Head(groups)["flag"] = flag THEN Head(groups)["rows"] ELSE 0)
         + AggregateRows(Tail(groups), flag)

\* C12: summarize returns total_rows equal to the number of TopMatches,
\* decision_counts whose counts for Matched, Needs Review and Unmatched (0
\* for a decision without rows) sum to total_rows, and clean_rows +
\* has_flags_rows = total_rows, a row being clean exactly when its QC flag
\* list is empty; the clean and flagged totals are those of the (decision,
\* clean/flagged) aggregate that export_outputs wrote.
C12_SummaryTotals ==
    Summarized =>
        /\ summary["total_rows"] = Len(top.rows)
        /\ DOMAIN summary["decision_counts"] \subseteq Decisions
        /\ CountOf("Matched") + CountOf("Needs Review") + CountOf("Unmatched")
              = summary["total_rows"]
        /\ \A d \in Decisions :
              CountOf(d) = Cardinality({i \in 1..Len(top.rows) : top.rows[i]["decision"] = d})
        /\ summary["clean_rows"] + summary["has_flags_rows"] = summary["total_rows"]
        /\ summary["clean_rows"]
              = Cardinality({i \in 1..Len(top.rows) : top.rows[i]["qc_flags"] = <<>>})
        /\ summary["clean_rows"] = AggregateRows(File("qc_summary.csv"), "clean")
        /\ summary["has_flags_rows"] = AggregateRows(File("qc_summary.csv"), "has_flags")

\* two top pairs, one clean and Matched, one flagged and Unmatched; no
\* Needs Review row, so that decision has no entry in decision_counts
C12_Witness ==
    /\ Summarized
    /\ summary["total_rows"] = 2
    /\ summary["decision_counts"] = [d \in {"Matched", "Unmatched"} |-> 1]
    /\ summary["clean_rows"] = 1
    /\ summary["has_flags_rows"] = 1
    /\ \E i \in 1..2 : top.rows[i]["decision"] = "Matched" /\ top.rows[i]["qc_flags"] = <<>>
    /\ Len(File("qc_summary.csv")) = 2

\* engineer_features has returned: df is the table it returned, with the
\* columns that the later stages added
Engineered == pc \in {"engineered", "scored", "labeled", "done"}

Stale == "stale_update_>2y"

\* C13: freshness is 0.3 for an unknown days_since_update, 1.0 up to 365
\* days, 0.7 above 365 up to 730, 0.5 above 730 up to 1095 and 0.3 above
\* 1095, the boundary values 365, 730 and 1095 falling in the fresher bin;
\* a top pair carries the stale_update_>2y flag only when its freshness is
\* 0.5 or 0.3.
C13_FreshnessBins ==
    /\ Engineered =>
          \A r \in Rows(df) :
              LET days == r["days_since_update"]
                  f == r["freshness"]
              IN  /\ days = NoDays => f = 3
                  /\ days # NoDays =>
                        /\ days[1] <= 365 => f = 10
                        /\ (365 < days[1] /\ days[1] <= 730) => f = 7
                        /\ (730 < days[1] /\ days[1] <= 1095) => f = 5
                        /\ days[1] > 1095 => f = 3
    /\ Labeled =>
          \A r \in Rows(top) :
              Stale \in Range(r["qc_flags"]) => r["freshness"] \in {5, 3}

\* two top pairs, one updated exactly 730 days ago, with freshness 0.7 and
\* not stale, one updated 731 days ago, with freshness 0.5 and stale
C13_Witness ==
    /\ pc = "done"
    /\ Len(top.rows) = 2
    /\ \E i, j \in 1..2 :
          /\ top.rows[i]["days_since_update"] = <<730>>
          /\ top.rows[i]["freshness"] = 7
          /\ Stale \notin Range(top.rows[i]["qc_flags"])
          /\ top.rows[j]["days_since_update"] = <<731>>
          /\ top.rows[j]["freshness"] = 5
          /\ Stale \in Range(top.rows[j]["qc_flags"])

\* C14: every pair that engineer_features produces has name_similarity in
\* [0,1], country_match, city_match and has_website each 0 or 1,
\* days_since_update unknown or a non-negative integer, and freshness in
\* [0,1]; city_match is 1 only if the normalized input city is non-empty
\* and equals the normalized candidate city.
C14_FeatureRanges ==
    Engineered =>
        \A r \in Rows(df) :
            /\ r["name_similarity"] \in 0..1000
            /\ r["country_match"] \in {0, 1}
            /\ r["city_match"] \in {0, 1}
            /\ r["has_website"] \in {0, 1}
            /\ r["days_since_update"] = NoDays \/ r["days_since_update"][1] >= 0
            /\ r["freshness"] \in 0..10
            /\ r["city_match"] = 1 =>
                  /\ Norm(Get(r, "input_main_city", <<>>)) # <<>>
                  /\ Norm(Get(r, "input_main_city", <<>>)) = Norm(Get(r, "main_city", <<>>))

====
